---- MODULE Spec2Model ----
(***************************************************************************)
(* Model of ollama_monitor.py: the SQLite store (OllamaMetricsDB) and its   *)
(* concurrent writers, the monitoring loop and the generation test of      *)
(* OllamaMonitor, the loop of emit_system_metrics, the query routes and    *)
(* the Flask proxy route with its calls to the upstream.                   *)
(*                                                                         *)
(* Time is counted in hours on the UTC clock `now`.  The host's local      *)
(* clock is now + tz.  A timestamp text "YYYY-MM-DD?HH:.." is the tuple    *)
(* <<day, separator character code, hour of day>>; comparing two such      *)
(* tuples lexicographically is SQLite's BINARY comparison of the texts.    *)
(***************************************************************************)
EXTENDS Integers, Sequences, FiniteSets, TLC

\* ---- bounds of the model ----
MaxRows == 2
MaxBatches == 2
StartClock == 32
ClockStep == 8
MaxClock == 56
TzShift == 8
MaxWriters == 2
MaxMonitors == 2
MaxWait == 11

\* request rows in the store that /api/stats/requests reads
MaxLogs == 3

\* ---- constants of the program and of its text formats ----
HoursPerDay == 24
SepSpace == 32
SepT == 84

VARIABLES now, tz, system_metrics, request_logs, models,
          written_samples, written_batches, last_call, default_model,
          db_lock, conn, issued, monitor, emitted, schema, inflight, poller

store_vars == <<system_metrics, request_logs, models>>

\* the connections of concurrent writers and the write lock of the database file
conn_vars == <<db_lock, conn, issued>>

\* what the operations on the store as a whole, the monitor and the routes
\* leave alone
ext_vars == <<conn_vars, monitor, emitted, schema, inflight, poller>>

\* ---------------------------------------------------------------------
\* texts and dictionaries
\* ---------------------------------------------------------------------
NULL == <<>>

EmptyDict == [k \in {} |-> 0]

\* Python's None, and a value x that is present
None == <<>>

Some(x) == <<x>>

\* truth value of an optional text: None and '' are false
Truthy(opt) == opt # None /\ opt[1] # ""

DictGet(d, k, default) == IF k \in DOMAIN d THEN d[k] ELSE default

\* datetime.now().isoformat(): date, 'T', time of day
isoformat(t) == <<t \div HoursPerDay, SepT, t % HoursPerDay>>

\* SQLite datetime('now', '-h hours'): date, ' ', time of day on the UTC
\* clock; the modifier '--1 hours' built from a negative h is invalid and
\* makes datetime() return NULL
sqlite_datetime(h) ==
    IF h < 0 THEN NULL
    ELSE <<(now - h) \div HoursPerDay, SepSpace, (now - h) % HoursPerDay>>

\* the instant (in hours) a timestamp text denotes on the clock it was read from
TimeOf(ts) == ts[1] * HoursPerDay + ts[3]

TextLess(a, b) ==
    \/ a[1] < b[1]
    \/ a[1] = b[1] /\ a[2] < b[2]
    \/ a[1] = b[1] /\ a[2] = b[2] /\ a[3] < b[3]

\* SQL a > b : unknown (no row selected) when an operand is NULL
SqlGreater(a, b) == a # NULL /\ b # NULL /\ TextLess(b, a)

\* ---------------------------------------------------------------------
\* input domains
\* ---------------------------------------------------------------------
ClockValues == {t \in StartClock..MaxClock : (t - StartClock) % ClockStep = 0}

TzOffsets == {0 - TzShift, 0, TzShift}

Windows == {0 - 1, 1, 8, 24}

HostMetrics == [cpu_percent |-> 10, memory_percent |-> 20, disk_percent |-> 30,
                network_bytes_sent |-> 4, network_bytes_recv |-> 5]

ProcessInfos == {EmptyDict,
                 [pid |-> 7, cpu_percent |-> 3, memory_percent |-> 2, connections |-> 1]}

\* the metrics dictionaries a caller can pass to save_system_metrics
MetricsInputs ==
    {[timestamp |-> isoformat(t + tz), server_status |-> p # EmptyDict,
      system |-> HostMetrics, ollama_process |-> p] :
        t \in ClockValues, p \in ProcessInfos}

\* the log_data dictionaries a caller can pass to save_request_log
LogInputs ==
    {[timestamp |-> isoformat(t + tz), client_ip |-> "127.0.0.1", model_name |-> m,
      input_tokens |-> 5, output_tokens |-> 9, response_time |-> 2,
      status_code |-> 200, endpoint |-> "/api/generate"] :
        t \in ClockValues, m \in {"llama3", "phi"}}

\* the entries of an upstream model listing
ModelInputs ==
    {[name |-> "llama3", size |-> 47, modified_at |-> "yesterday",
      details |-> [parameter_size |-> "8B", family |-> "llama"]],
     [name |-> "phi"]}

ModelLists == {<<>>} \cup {<<m>> : m \in ModelInputs}
                     \cup {<<m1, m2>> : m1 \in ModelInputs, m2 \in ModelInputs}

\* ---------------------------------------------------------------------
\* OllamaMetricsDB
\* ---------------------------------------------------------------------
SystemMetricsRow(id, metrics) ==
    LET ollama_process == DictGet(metrics, "ollama_process", EmptyDict)
    IN [id |-> id,
        timestamp |-> metrics.timestamp,
        server_status |-> IF metrics.server_status THEN 1 ELSE 0,
        cpu_percent |-> metrics.system.cpu_percent,
        memory_percent |-> metrics.system.memory_percent,
        disk_percent |-> metrics.system.disk_percent,
        network_bytes_sent |-> metrics.system.network_bytes_sent,
        network_bytes_recv |-> metrics.system.network_bytes_recv,
        ollama_cpu_percent |-> DictGet(ollama_process, "cpu_percent", 0),
        ollama_memory_percent |-> DictGet(ollama_process, "memory_percent", 0),
        ollama_connections |-> DictGet(ollama_process, "connections", 0)]

NoCall == [op |-> "none", hours |-> 0, at |-> 0, rows |-> <<>>]

\* the store takes no more than MaxRows rows in all
TotalRows == Len(system_metrics) + Len(request_logs) + Len(models)

save_system_metrics(metrics) ==
    /\ TotalRows < MaxRows
    /\ system_metrics' = Append(system_metrics,
                                SystemMetricsRow(Len(system_metrics) + 1, metrics))
    /\ written_samples' = Append(written_samples, metrics)
    /\ last_call' = [NoCall EXCEPT !.op = "save_system_metrics", !.at = now]
    /\ UNCHANGED <<ext_vars, now, tz, request_logs, models, written_batches, default_model>>

\* a response_time of None is written as a record without the field, in
\* log_data and in the row, where the column is NULL
RequestLogRow(id, log_data) ==
    IF "response_time" \in DOMAIN log_data
    THEN [id |-> id,
          timestamp |-> log_data.timestamp,
          client_ip |-> log_data.client_ip,
          model_name |-> log_data.model_name,
          input_tokens |-> log_data.input_tokens,
          output_tokens |-> log_data.output_tokens,
          response_time |-> log_data.response_time,
          status_code |-> log_data.status_code,
          endpoint |-> log_data.endpoint]
    ELSE [id |-> id,
          timestamp |-> log_data.timestamp,
          client_ip |-> log_data.client_ip,
          model_name |-> log_data.model_name,
          input_tokens |-> log_data.input_tokens,
          output_tokens |-> log_data.output_tokens,
          status_code |-> log_data.status_code,
          endpoint |-> log_data.endpoint]

save_request_log(log_data) ==
    /\ TotalRows < MaxRows
    /\ request_logs' = Append(request_logs,
                              RequestLogRow(Len(request_logs) + 1, log_data))
    /\ last_call' = [NoCall EXCEPT !.op = "save_request_log", !.at = now]
    /\ UNCHANGED <<ext_vars, now, tz, system_metrics, models, written_samples, written_batches,
                   default_model>>

\* str(n) of a natural number: the character codes of its decimal digits
RECURSIVE str(_)
str(n) == IF n < 10 THEN <<48 + n>> ELSE Append(str(n \div 10), 48 + (n % 10))

ModelRow(id, timestamp, model) ==
    LET details == DictGet(model, "details", EmptyDict)
    IN [id |-> id,
        timestamp |-> timestamp,
        model_name |-> DictGet(model, "name", ""),
        model_size |-> str(DictGet(model, "size", 0)),
        parameter_size |-> DictGet(details, "parameter_size", ""),
        modified_at |-> DictGet(model, "modified_at", ""),
        model_family |-> DictGet(details, "family", "")]

\* the rows the loop of save_models inserts, one per model of the list
ModelRows(first_id, timestamp, list) ==
    [k \in 1..Len(list) |-> ModelRow(first_id + k - 1, timestamp, list[k])]

save_models(timestamp, list) ==
    /\ TotalRows + Len(list) <= MaxRows
    /\ Len(written_batches) < MaxBatches
    /\ models' = models \o ModelRows(Len(models) + 1, timestamp, list)
    /\ written_batches' = Append(written_batches,
                                 [timestamp |-> timestamp, models |-> list])
    /\ last_call' = [NoCall EXCEPT !.op = "save_models", !.at = now]
    /\ UNCHANGED <<ext_vars, now, tz, system_metrics, request_logs, written_samples, default_model>>

\* WHERE timestamp > datetime('now', '-h hours')
InWindow(row, hours) == SqlGreater(row.timestamp, sqlite_datetime(hours))

Selected(table, hours) == {i \in 1..Len(table) : InWindow(table[i], hours)}

\* the sequences that list every row of the index set S once
Listings(table, S) ==
    {[k \in 1..Cardinality(S) |-> table[f[k]]] :
        f \in {g \in [1..Cardinality(S) -> S] :
                 \A a, b \in 1..Cardinality(S) : a # b => g[a] # g[b]}}

\* the rows come back in the order of their insertion (no ORDER BY)
OrderByTimestamp_byId(rows) ==
    \A k \in 1..(Len(rows) - 1) : rows[k].id < rows[k + 1].id

\* ORDER BY timestamp
OrderByTimestamp(rows) ==
    \A k \in 1..(Len(rows) - 1) : ~TextLess(rows[k + 1].timestamp, rows[k].timestamp)

\* the DESC keyword left out
OrderByTimestampDesc_asc(rows) ==
    \A k \in 1..(Len(rows) - 1) : ~TextLess(rows[k + 1].timestamp, rows[k].timestamp)

\* ORDER BY timestamp DESC
OrderByTimestampDesc(rows) ==
    \A k \in 1..(Len(rows) - 1) : ~TextLess(rows[k].timestamp, rows[k + 1].timestamp)

get_recent_system_metrics(hours) ==
    /\ \E rows \in Listings(system_metrics, Selected(system_metrics, hours)) :
          /\ OrderByTimestamp(rows)
          /\ last_call' = [op |-> "get_recent_system_metrics", hours |-> hours,
                           at |-> now, rows |-> rows]
    /\ UNCHANGED <<ext_vars, now, tz, system_metrics, request_logs, models,
                   written_samples, written_batches, default_model>>

get_recent_requests(hours) ==
    /\ \E rows \in Listings(request_logs, Selected(request_logs, hours)) :
          /\ OrderByTimestampDesc(rows)
          /\ last_call' = [op |-> "get_recent_requests", hours |-> hours,
                           at |-> now, rows |-> rows]
    /\ UNCHANGED <<ext_vars, now, tz, system_metrics, request_logs, models,
                   written_samples, written_batches, default_model>>

\* the batch of the row inserted last instead of the greatest timestamp
IsMaxTimestamp_lastInserted(table, i) ==
    table[i].timestamp = table[Len(table)].timestamp

\* WHERE timestamp = (SELECT MAX(timestamp) FROM models)
IsMaxTimestamp(table, i) ==
    \A j \in 1..Len(table) : ~TextLess(table[i].timestamp, table[j].timestamp)

get_latest_models ==
    /\ \E rows \in Listings(models, {i \in 1..Len(models) : IsMaxTimestamp(models, i)}) :
          last_call' = [op |-> "get_latest_models", hours |-> 0,
                        at |-> now, rows |-> rows]
    /\ UNCHANGED <<ext_vars, now, tz, system_metrics, request_logs, models,
                   written_samples, written_batches, default_model>>

\* the clock of the host moves on
Advance ==
    /\ now + ClockStep <= MaxClock
    /\ now' = now + ClockStep
    /\ UNCHANGED <<ext_vars, tz, system_metrics, request_logs, models,
                   written_samples, written_batches, last_call, default_model>>

\* ---------------------------------------------------------------------
\* OllamaMonitor: model discovery and the generation test
\* ---------------------------------------------------------------------
\* what the upstream can do with GET /api/tags
TagsOutcomes ==
    {[kind |-> "response", status_code |-> 200, models |-> list] : list \in ModelLists}
    \cup {[kind |-> "response", status_code |-> 200, models |-> <<[name |-> ""]>>],
          [kind |-> "response", status_code |-> 500, models |-> <<>>],
          [kind |-> "exception", status_code |-> 0, models |-> <<>>]}

\* the first name of every listing is taken, whatever was chosen before
get_models_reselecting(outcome) ==
    LET listed == IF outcome.kind = "response" /\ outcome.status_code = 200
                  THEN outcome.models ELSE <<>>
    IN /\ default_model' =
              IF listed # <<>>
              THEN (IF "name" \in DOMAIN listed[1] THEN Some(listed[1].name) ELSE None)
              ELSE default_model
       /\ last_call' = [op |-> "get_models", at |-> now, returned |-> listed]
       /\ UNCHANGED <<ext_vars, now, tz, system_metrics, request_logs, models,
                      written_samples, written_batches>>

get_models(outcome) ==
    LET listed == IF outcome.kind = "response" /\ outcome.status_code = 200
                  THEN outcome.models ELSE <<>>
    IN /\ default_model' =
              IF listed # <<>> /\ ~Truthy(default_model)
              THEN (IF "name" \in DOMAIN listed[1] THEN Some(listed[1].name) ELSE None)
              ELSE default_model
       /\ last_call' = [op |-> "get_models", at |-> now, returned |-> listed]
       /\ UNCHANGED <<ext_vars, now, tz, system_metrics, request_logs, models,
                      written_samples, written_batches>>

Latencies == {2, 3}

\* the bodies of a 200 answer to POST /api/generate: a JSON object with the
\* two counts, one without prompt_eval_count, and a body that is no JSON
GenerateBodies ==
    {Some([response |-> "Hi", prompt_eval_count |-> 5, eval_count |-> 9]),
     Some([response |-> "Hi", eval_count |-> 9]),
     None}

GenerateOutcomes ==
    {[kind |-> "response", status_code |-> 200, json |-> j, elapsed |-> e] :
        j \in GenerateBodies, e \in Latencies}
    \cup {[kind |-> "response", status_code |-> 500, json |-> None, elapsed |-> e] :
            e \in Latencies}
    \cup {[kind |-> "exception", status_code |-> 0, json |-> None, elapsed |-> e] :
            e \in Latencies}

NotCalled == [kind |-> "not called", status_code |-> 0, json |-> None, elapsed |-> 0]

ModelArgs == {None, Some("phi")}

\* the model the test runs on: the argument, else the default model
TestedModel(model_name) ==
    IF ~Truthy(model_name) /\ Truthy(default_model) THEN default_model ELSE model_name

\* input and output counts exchanged
GenerationLog_swapped(model_name, outcome) ==
    [timestamp |-> isoformat(now + tz),
     client_ip |-> "127.0.0.1",
     model_name |-> model_name[1],
     input_tokens |-> DictGet(outcome.json[1], "eval_count", 0),
     output_tokens |-> DictGet(outcome.json[1], "prompt_eval_count", 0),
     response_time |-> outcome.elapsed,
     status_code |-> outcome.status_code,
     endpoint |-> "/api/generate"]

GenerationLog(model_name, outcome) ==
    [timestamp |-> isoformat(now + tz),
     client_ip |-> "127.0.0.1",
     model_name |-> model_name[1],
     input_tokens |-> DictGet(outcome.json[1], "prompt_eval_count", 0),
     output_tokens |-> DictGet(outcome.json[1], "eval_count", 0),
     response_time |-> outcome.elapsed,
     status_code |-> outcome.status_code,
     endpoint |-> "/api/generate"]

\* the measured time is returned whatever the upstream answered
test_model_generation_alwaysTimed(model_name, outcome, db_ok) ==
    LET name == TestedModel(model_name)
        logged == /\ Truthy(name)
                  /\ outcome.kind = "response"
                  /\ outcome.status_code = 200
                  /\ outcome.json # None
                  /\ db_ok
    IN /\ TotalRows < MaxRows
       /\ request_logs' =
              IF logged
              THEN Append(request_logs,
                          RequestLogRow(Len(request_logs) + 1, GenerationLog(name, outcome)))
              ELSE request_logs
       /\ last_call' = [op |-> "test_model_generation", at |-> now,
                        model_name |-> name,
                        outcome |-> IF Truthy(name) THEN outcome ELSE NotCalled,
                        returned |-> IF Truthy(name) THEN Some(outcome.elapsed) ELSE None]
       /\ UNCHANGED <<ext_vars, now, tz, system_metrics, models, written_samples,
                      written_batches, default_model>>

\* the status of the answer is not tested: every answer is logged
test_model_generation_unchecked(model_name, outcome, db_ok) ==
    LET name == TestedModel(model_name)
        logged == /\ Truthy(name)
                  /\ outcome.kind = "response"
                  /\ db_ok
        log_data == [timestamp |-> isoformat(now + tz),
                     client_ip |-> "127.0.0.1",
                     model_name |-> name[1],
                     input_tokens |-> 0,
                     output_tokens |-> 0,
                     response_time |-> outcome.elapsed,
                     status_code |-> outcome.status_code,
                     endpoint |-> "/api/generate"]
    IN /\ TotalRows < MaxRows
       /\ request_logs' =
              IF logged
              THEN Append(request_logs, RequestLogRow(Len(request_logs) + 1, log_data))
              ELSE request_logs
       /\ last_call' = [op |-> "test_model_generation", at |-> now,
                        model_name |-> name,
                        outcome |-> IF Truthy(name) THEN outcome ELSE NotCalled,
                        returned |-> IF logged THEN Some(outcome.elapsed) ELSE None]
       /\ UNCHANGED <<ext_vars, now, tz, system_metrics, models, written_samples,
                      written_batches, default_model>>

\* db_ok: save_request_log commits; otherwise it raises and the handler of
\* test_model_generation catches the error
test_model_generation(model_name, outcome, db_ok) ==
    LET name == TestedModel(model_name)
        logged == /\ Truthy(name)
                  /\ outcome.kind = "response"
                  /\ outcome.status_code = 200
                  /\ outcome.json # None
                  /\ db_ok
    IN /\ TotalRows < MaxRows
       /\ request_logs' =
              IF logged
              THEN Append(request_logs,
                          RequestLogRow(Len(request_logs) + 1, GenerationLog(name, outcome)))
              ELSE request_logs
       /\ last_call' = [op |-> "test_model_generation", at |-> now,
                        model_name |-> name,
                        outcome |-> IF Truthy(name) THEN outcome ELSE NotCalled,
                        returned |-> IF logged THEN Some(outcome.elapsed) ELSE None]
       /\ UNCHANGED <<ext_vars, now, tz, system_metrics, models, written_samples,
                      written_batches, default_model>>

\* ---------------------------------------------------------------------
\* the proxy route /ollama/<path>
\* ---------------------------------------------------------------------
OLLAMA_HOST == "http://localhost:11434"

\* bytes on the wire: a text, sent as it is or gzip-compressed
Bytes(text) == [coding |-> "identity", text |-> text]

Gzip(text) == [coding |-> "gzip", text |-> text]

\* requests.Response.content: the body with its Content-Encoding undone
content(resp) ==
    IF "Content-Encoding" \in DOMAIN resp.headers /\ resp.headers["Content-Encoding"] = "gzip"
    THEN Bytes(resp.raw.text)
    ELSE resp.raw

\* request.get_json(silent=True) followed by the json= argument of requests:
\* a JSON text is parsed and written again by json.dumps; any other body,
\* or a body not declared application/json, gives None and no body is sent
json_body(req) ==
    IF req.headers["Content-Type"] = "application/json"
    THEN CASE req.data = "{\"model\":\"phi\"}" -> "{\"model\": \"phi\"}"
               [] OTHER -> ""
    ELSE ""

ProxyMethods == {"GET", "POST", "PUT", "DELETE"}

\* the query string, the Content-Type and the body of an inbound call
InboundShapes ==
    {<<[verbose |-> "1"], "application/json", "{\"model\":\"phi\"}">>,
     <<EmptyDict, "text/plain", "hello">>,
     <<EmptyDict, "text/plain", "">>}

\* the inbound calls: Flask also routes HEAD to a view registered for GET
Inbound ==
    {[method |-> m, path |-> "api/tags", args |-> b[1],
      headers |-> ("Host" :> "monitor:8080") @@ ("Content-Type" :> b[2]),
      data |-> b[3]] :
        m \in ProxyMethods \cup {"HEAD"}, b \in InboundShapes}

ForwardedHeaders(req) == [k \in (DOMAIN req.headers) \ {"Host"} |-> req.headers[k]]

\* the call that requests.get / post / put / delete issues
UpstreamCall(req) ==
    [method |-> req.method,
     url |-> <<OLLAMA_HOST, "/", req.path>>,
     headers |-> ForwardedHeaders(req),
     params |-> IF req.method = "GET" THEN req.args ELSE EmptyDict,
     body |-> CASE req.method = "POST" -> json_body(req)
                [] req.method = "PUT" -> req.data
                [] OTHER -> "",
     timeout |-> 10]

NoUpstreamCall ==
    [method |-> "", url |-> <<>>, headers |-> EmptyDict, params |-> EmptyDict,
     body |-> "", timeout |-> 0]

\* what becomes of the upstream call
UpstreamAnswers ==
    {[kind |-> "response", status_code |-> c,
      headers |-> ("Server" :> "ollama"), raw |-> Bytes("{\"models\":[]}")] : c \in {200, 404}}
    \cup {[kind |-> "response", status_code |-> 200,
           headers |-> ("Server" :> "ollama") @@ ("Content-Encoding" :> "gzip"),
           raw |-> Gzip("{\"models\":[]}")]}

UpstreamFailures ==
    {[kind |-> "RequestException", detail |-> d] : d \in {"ConnectionError", "ReadTimeout"}}
    \cup {[kind |-> "Exception", detail |-> "unexpected"]}

ProxyOutcomes == UpstreamAnswers \cup UpstreamFailures

NoOutcome == [kind |-> "not called", detail |-> ""]

JsonHeaders == "Content-Type" :> "application/json"

\* every failure answered as a generic server error
ProxyFailure_generic(outcome) ==
    [status |-> 500,
     body |-> [error |-> "Unexpected error occurred", details |-> outcome.detail],
     headers |-> JsonHeaders]

\* the two except clauses of proxy_ollama
ProxyFailure(outcome) ==
    IF outcome.kind = "RequestException"
    THEN [status |-> 502,
          body |-> [error |-> "Upstream API request failed", details |-> outcome.detail],
          headers |-> JsonHeaders]
    ELSE [status |-> 500,
          body |-> [error |-> "Unexpected error occurred", details |-> outcome.detail],
          headers |-> JsonHeaders]

\* Flask's answer to an exception that leaves the view function
InternalServerError ==
    [status |-> 500, body |-> "Internal Server Error",
     headers |-> ("Content-Type" :> "text/html")]

MethodNotAllowed ==
    [status |-> 405, body |-> [error |-> "Method not allowed"], headers |-> JsonHeaders]

ProxyResponse(req, db_ok, outcome) ==
    IF ~db_ok THEN InternalServerError
    ELSE IF req.method \notin ProxyMethods THEN MethodNotAllowed
    ELSE IF outcome.kind = "response"
         THEN [status |-> outcome.status_code, body |-> content(outcome),
               headers |-> outcome.headers]
    ELSE ProxyFailure(outcome)

\* the exchange, and a RequestLogEntry written for it as well
proxy_ollama_logging(req, db_ok, outcome) ==
    LET called == db_ok /\ req.method \in ProxyMethods
    IN /\ TotalRows < MaxRows
       /\ last_call' = [op |-> "proxy_ollama", at |-> now, request |-> req, db_ok |-> db_ok,
                        upstream_call |-> IF called THEN UpstreamCall(req) ELSE NoUpstreamCall,
                        outcome |-> IF called THEN outcome ELSE NoOutcome,
                        response |-> ProxyResponse(req, db_ok, outcome)]
       /\ request_logs' = Append(request_logs,
              RequestLogRow(Len(request_logs) + 1,
                  [timestamp |-> isoformat(now + tz), client_ip |-> "10.0.0.9",
                   model_name |-> "", input_tokens |-> 0, output_tokens |-> 0,
                   response_time |-> 1,
                   status_code |-> ProxyResponse(req, db_ok, outcome).status,
                   endpoint |-> req.path]))
       /\ UNCHANGED <<ext_vars, now, tz, system_metrics, models,
                      written_samples, written_batches, default_model>>

\* db_ok: OllamaMetricsDB() at the head of the view opens the file and runs
\* _create_tables (CREATE ... IF NOT EXISTS, no row touched); otherwise it raises
proxy_ollama(req, db_ok, outcome) ==
    LET called == db_ok /\ req.method \in ProxyMethods
    IN /\ last_call' = [op |-> "proxy_ollama", at |-> now, request |-> req, db_ok |-> db_ok,
                        upstream_call |-> IF called THEN UpstreamCall(req) ELSE NoUpstreamCall,
                        outcome |-> IF called THEN outcome ELSE NoOutcome,
                        response |-> ProxyResponse(req, db_ok, outcome)]
       /\ UNCHANGED <<ext_vars, now, tz, system_metrics, request_logs, models,
                      written_samples, written_batches, default_model>>

\* ---------------------------------------------------------------------
\* concurrent writers: every save_* call opens its own connection, inserts
\* inside an implicit transaction and commits
\* ---------------------------------------------------------------------
Writers == 1..MaxWriters

\* batch: the rows the save_* call was given; todo: those not yet inserted
Closed == [pc |-> "closed", table |-> "", batch |-> <<>>, todo |-> <<>>, cache |-> <<>>]

Table(name) ==
    CASE name = "system_metrics" -> system_metrics
      [] name = "request_logs" -> request_logs
      [] OTHER -> models

\* the row an INSERT of the call builds; id is the AUTOINCREMENT key
NewRow(name, id, item) ==
    CASE name = "system_metrics" -> SystemMetricsRow(id, item.data)
      [] name = "request_logs" -> RequestLogRow(id, item.data)
      [] OTHER -> ModelRow(id, item.timestamp, item.data)

\* the save_* calls of this instant: the relation and the rows to insert
WriteCalls ==
    {[table |-> "system_metrics",
      todo |-> <<[timestamp |-> isoformat(now + tz), data |-> m]>>] :
        m \in {x \in MetricsInputs : x.timestamp = isoformat(now + tz)}}
    \cup {[table |-> "request_logs",
           todo |-> <<[timestamp |-> isoformat(now + tz), data |-> l]>>] :
             l \in {x \in LogInputs : x.timestamp = isoformat(now + tz)}}
    \cup {[table |-> "models",
           todo |-> [k \in 1..Len(list) |->
                        [timestamp |-> isoformat(now + tz), data |-> list[k]]]] :
             list \in ModelLists}

RECURSIVE PendingRows(_)
PendingRows(w) == IF w = 0 THEN 0 ELSE Len(conn[w].todo) + PendingRows(w - 1)

\* conn = sqlite3.connect(self.db_file); cursor = conn.cursor()
sqlite3_connect(w, call) ==
    /\ conn[w].pc = "closed"
    /\ TotalRows + PendingRows(MaxWriters) + Len(call.todo) <= MaxRows
    /\ Len(issued) + PendingRows(MaxWriters) + Len(call.todo) <= MaxRows
    /\ conn' = [conn EXCEPT ![w] = [pc |-> "open", table |-> call.table,
                                    batch |-> call.todo, todo |-> call.todo,
                                    cache |-> <<>>]]
    /\ UNCHANGED <<now, tz, system_metrics, request_logs, models, written_samples,
                   written_batches, last_call, default_model, db_lock, issued,
                   monitor, emitted, schema, inflight, poller>>

\* no lock: a writer starts its transaction whoever else is writing
CanWrite_unlocked(w) == TRUE

\* the first INSERT of a connection starts the transaction and takes the
\* write lock of the database file; it waits while another connection has it
CanWrite(w) == db_lock = None \/ db_lock = Some(w)

\* cursor.execute('INSERT INTO ...'): the row is added to the pages the
\* connection holds, read from the file when the transaction starts
cursor_execute(w) ==
    LET c == conn[w]
        pages == IF c.pc = "open" THEN Table(c.table) ELSE c.cache
    IN /\ c.pc \in {"open", "in_transaction"}
       /\ c.todo # <<>>
       /\ CanWrite(w)
       /\ db_lock' = Some(w)
       /\ conn' = [conn EXCEPT ![w] =
                      [pc |-> "in_transaction", table |-> c.table,
                       batch |-> c.batch, todo |-> Tail(c.todo),
                       cache |-> Append(pages,
                                        NewRow(c.table, Len(pages) + 1, Head(c.todo)))]]
       /\ issued' = Append(issued, [table |-> c.table,
                                    row |-> NewRow(c.table, Len(pages) + 1, Head(c.todo))])
       /\ UNCHANGED <<now, tz, system_metrics, request_logs, models, written_samples,
                      written_batches, last_call, default_model, monitor, emitted,
                      schema, inflight, poller>>

\* conn.commit(); conn.close(): the pages of the transaction go to the file
\* and the lock is released
conn_commit(w) ==
    LET c == conn[w]
        wrote(name) == c.pc = "in_transaction" /\ c.table = name
    IN /\ c.pc \in {"open", "in_transaction"}
       /\ c.todo = <<>>
       /\ system_metrics' = IF wrote("system_metrics") THEN c.cache ELSE system_metrics
       /\ request_logs' = IF wrote("request_logs") THEN c.cache ELSE request_logs
       /\ models' = IF wrote("models") THEN c.cache ELSE models
       /\ db_lock' = IF c.pc = "in_transaction" THEN None ELSE db_lock
       /\ conn' = [conn EXCEPT ![w] = Closed]
       /\ UNCHANGED <<now, tz, written_samples, written_batches, last_call,
                      default_model, issued, monitor, emitted, schema, inflight, poller>>

\* building or inserting a row raises (a model whose details is null, a value
\* SQLite cannot bind): the call is left before conn.commit(), the connection
\* still holds its transaction and the lock
cursor_execute_raises(w) ==
    /\ conn[w].pc \in {"open", "in_transaction"}
    /\ conn[w].todo # <<>>
    /\ conn' = [conn EXCEPT ![w].pc = "raised"]
    /\ UNCHANGED <<now, tz, system_metrics, request_logs, models, written_samples,
                   written_batches, last_call, default_model, db_lock, issued,
                   monitor, emitted, schema, inflight, poller>>

\* the rows inserted before the failure reach the file
conn_close_uncommitted_flushing(w) ==
    LET c == conn[w]
        wrote(name) == c.cache # <<>> /\ c.table = name
    IN /\ c.pc = "raised"
       /\ system_metrics' = IF wrote("system_metrics") THEN c.cache ELSE system_metrics
       /\ request_logs' = IF wrote("request_logs") THEN c.cache ELSE request_logs
       /\ models' = IF wrote("models") THEN c.cache ELSE models
       /\ db_lock' = IF db_lock = Some(w) THEN None ELSE db_lock
       /\ conn' = [conn EXCEPT ![w] = Closed]
       /\ UNCHANGED <<now, tz, written_samples, written_batches, last_call,
                      default_model, issued, monitor, emitted, schema, inflight, poller>>

\* the connection of the failed call is dropped without a commit: its
\* transaction is rolled back and the lock released
conn_close_uncommitted(w) ==
    /\ conn[w].pc = "raised"
    /\ db_lock' = IF db_lock = Some(w) THEN None ELSE db_lock
    /\ conn' = [conn EXCEPT ![w] = Closed]
    /\ UNCHANGED <<now, tz, system_metrics, request_logs, models, written_samples,
                   written_batches, last_call, default_model, issued, monitor,
                   emitted, schema, inflight, poller>>

\* ---------------------------------------------------------------------
\* OllamaMonitor.run: the monitoring loop, one thread per started monitor
\* ---------------------------------------------------------------------
Monitors == 1..MaxMonitors

\* the monitor that __main__ starts
MainMonitor == 1

\* pc: "none" no monitor yet, "while" at the loop test, "tick" inside the try
\* block, "save" before save_system_metrics, "emit" before socketio.emit,
\* "sleep" in time.sleep(self.interval), "except" in the handler's
\* time.sleep(10), "exited" after the loop
\* slept: the seconds of the sleep that led to the present loop test
NoMonitor == [pc |-> "none", running |-> FALSE, metrics |-> None,
              scan |-> "", fault |-> "", slept |-> 0]

\* monitor = OllamaMonitor(); threading.Thread(target=monitor.run, ...).start()
run_monitor(l) ==
    /\ monitor[l].pc = "none"
    /\ monitor' = [monitor EXCEPT ![l] = [NoMonitor EXCEPT !.pc = "while",
                                                           !.running = TRUE]]
    /\ UNCHANGED <<now, tz, system_metrics, request_logs, models, written_samples,
                   written_batches, last_call, default_model, conn_vars, emitted, schema, inflight, poller>>

\* run() called again on a monitor whose loop has returned
run(l) ==
    /\ monitor[l].pc = "exited"
    /\ monitor' = [monitor EXCEPT ![l].pc = "while"]
    /\ UNCHANGED <<now, tz, system_metrics, request_logs, models, written_samples,
                   written_batches, last_call, default_model, conn_vars, emitted, schema, inflight, poller>>

stop(l) ==
    /\ monitor[l].pc # "none"
    /\ monitor' = [monitor EXCEPT ![l].running = FALSE]
    /\ UNCHANGED <<now, tz, system_metrics, request_logs, models, written_samples,
                   written_batches, last_call, default_model, conn_vars, emitted, schema, inflight, poller>>

\* while self.running:
while_test(l) ==
    /\ monitor[l].pc = "while"
    /\ monitor' = [monitor EXCEPT ![l].pc = IF monitor[l].running THEN "tick"
                                            ELSE "exited"]
    /\ UNCHANGED <<now, tz, system_metrics, request_logs, models, written_samples,
                   written_batches, last_call, default_model, conn_vars, emitted, schema, inflight, poller>>

\* what the scan of the process table meets
Scans == {"not found", "found", "access denied"}

\* a scan without a match ends in an error
get_ollama_process_info_raising(scan) ==
    [raised |-> scan = "not found",
     value |-> IF scan = "not found" THEN None
               ELSE Some([pid |-> 7, cpu_percent |-> 3, memory_percent |-> 2,
                          connections |-> IF scan = "access denied" THEN 0 - 1 ELSE 1])]

\* no except clause: psutil.AccessDenied leaves the function
get_ollama_process_info_denied(scan) ==
    [raised |-> scan = "access denied",
     value |-> IF scan = "found"
               THEN Some([pid |-> 7, cpu_percent |-> 3, memory_percent |-> 2,
                          connections |-> 1])
               ELSE None]

get_ollama_process_info(scan) ==
    [raised |-> FALSE,
     value |-> IF scan = "not found" THEN None
               ELSE Some([pid |-> 7, cpu_percent |-> 3, memory_percent |-> 2,
                          connections |-> IF scan = "access denied" THEN 0 - 1 ELSE 1])]

\* value or {}
OrEmptyDict(value) == IF value = None THEN EmptyDict ELSE value[1]

\* no handler: the error leaves run()
Caught_reraised(rec, kind) ==
    [rec EXCEPT !.pc = "exited", !.fault = kind, !.metrics = None]

\* except Exception as e: the error is logged and the loop pauses
Caught(rec, kind) ==
    [rec EXCEPT !.pc = "except", !.fault = kind]

\* the probe, the host metrics and then the process scan; get_server_status
\* answers False itself when the upstream is unreachable, an error of
\* get_system_metrics (host_ok = FALSE) reaches the handler of run() before
\* the scan is made
collect(l, server_status, host_ok, scan) ==
    LET info == get_ollama_process_info(scan)
        metrics == [timestamp |-> isoformat(now + tz),
                    server_status |-> server_status,
                    system |-> HostMetrics,
                    ollama_process |-> OrEmptyDict(info.value)]
    IN /\ monitor[l].pc = "tick"
       /\ monitor' = [monitor EXCEPT ![l] =
              IF host_ok /\ ~info.raised
              THEN [@ EXCEPT !.pc = "save", !.metrics = Some(metrics),
                             !.scan = scan, !.fault = "", !.slept = 0]
              ELSE IF ~host_ok THEN Caught(@, "collection")
              ELSE Caught([@ EXCEPT !.scan = scan], "collection")]
       /\ UNCHANGED <<now, tz, system_metrics, request_logs, models,
                      written_samples, written_batches, last_call, default_model,
                      conn_vars, emitted, schema, inflight, poller>>

\* the error of the store is swallowed and the tick goes on to the emit
persist_swallowing(l, db_ok) ==
    /\ monitor[l].pc = "save"
    /\ IF db_ok
       THEN /\ TotalRows < MaxRows
            /\ system_metrics' =
                  Append(system_metrics,
                         SystemMetricsRow(Len(system_metrics) + 1, monitor[l].metrics[1]))
            /\ written_samples' = Append(written_samples, monitor[l].metrics[1])
            /\ last_call' = [NoCall EXCEPT !.op = "save_system_metrics", !.at = now]
            /\ monitor' = [monitor EXCEPT ![l].pc = "emit"]
       ELSE /\ monitor' = [monitor EXCEPT ![l].pc = "emit", ![l].fault = "storage"]
            /\ UNCHANGED <<system_metrics, written_samples, last_call>>
    /\ UNCHANGED <<now, tz, request_logs, models, written_batches, default_model,
                   conn_vars, emitted, schema, inflight, poller>>

\* self.db.save_system_metrics(metrics)
persist(l, db_ok) ==
    /\ monitor[l].pc = "save"
    /\ IF db_ok
       THEN /\ TotalRows < MaxRows
            /\ system_metrics' =
                  Append(system_metrics,
                         SystemMetricsRow(Len(system_metrics) + 1, monitor[l].metrics[1]))
            /\ written_samples' = Append(written_samples, monitor[l].metrics[1])
            /\ last_call' = [NoCall EXCEPT !.op = "save_system_metrics", !.at = now]
            /\ monitor' = [monitor EXCEPT ![l].pc = "emit"]
       ELSE /\ monitor' = [monitor EXCEPT ![l] = Caught(@, "storage")]
            /\ UNCHANGED <<system_metrics, written_samples, last_call>>
    /\ UNCHANGED <<now, tz, request_logs, models, written_batches, default_model,
                   conn_vars, emitted, schema, inflight, poller>>

\* socketio.emit('update_metrics', metrics)
publish(l, emit_ok) ==
    /\ monitor[l].pc = "emit"
    /\ IF emit_ok
       THEN /\ emitted' = Some([event |-> "update_metrics", data |-> monitor[l].metrics[1]])
            /\ monitor' = [monitor EXCEPT ![l].pc = "sleep"]
       ELSE /\ monitor' = [monitor EXCEPT ![l] = Caught(@, "publish")]
            /\ UNCHANGED emitted
    /\ UNCHANGED <<now, tz, system_metrics, request_logs, models, written_samples,
                   written_batches, last_call, default_model, conn_vars, schema, inflight, poller>>

MONITOR_INTERVAL == 5

\* the handler sleeps the interval too
SleepSeconds_interval(pc) == MONITOR_INTERVAL

\* self.interval at the end of the try block, 10 in the handler
SleepSeconds(pc) == IF pc = "sleep" THEN MONITOR_INTERVAL ELSE 10

\* time.sleep(self.interval) after a tick, time.sleep(10) in the handler
time_sleep(l) ==
    /\ monitor[l].pc \in {"sleep", "except"}
    /\ monitor' = [monitor EXCEPT ![l].pc = "while", ![l].metrics = None,
                                  ![l].scan = "",
                                  ![l].slept = SleepSeconds(monitor[l].pc)]
    /\ UNCHANGED <<now, tz, system_metrics, request_logs, models, written_samples,
                   written_batches, last_call, default_model, conn_vars, emitted, schema, inflight, poller>>

\* ---------------------------------------------------------------------
\* the query routes /api/stats/models and /api/logs/requests
\* ---------------------------------------------------------------------
\* GROUP BY model_name over the selected rows
GroupOf(S, m) == {i \in S : request_logs[i].model_name = m}

RECURSIVE SumOf(_, _)
SumOf(G, column) ==
    IF G = {} THEN 0
    ELSE LET i == CHOOSE j \in G : TRUE
         IN request_logs[i][column] + SumOf(G \ {i}, column)

\* MAX(timestamp) of a group, by comparison of the texts
MaxTimestamp(G) ==
    CHOOSE t \in {request_logs[i].timestamp : i \in G} :
        \A i \in G : ~TextLess(t, request_logs[i].timestamp)

\* AVG(x) is the quotient total / rows, kept as the pair <<total, rows>>
Avg(G, column) == <<SumOf(G, column), Cardinality(G)>>

UsageRow(S, m) ==
    LET G == GroupOf(S, m)
    IN <<m, Cardinality(G), SumOf(G, "input_tokens"), SumOf(G, "output_tokens"),
         Avg(G, "response_time"), MaxTimestamp(G)>>

\* ORDER BY request_count DESC
OrderByCountDesc(rows) ==
    \A k \in 1..(Len(rows) - 1) : rows[k][2] >= rows[k + 1][2]

\* the results get_model_usage_stats(hours) can return
get_model_usage_stats(hours) ==
    LET S == Selected(request_logs, hours)
        names == {request_logs[i].model_name : i \in S}
        orders == {f \in [1..Cardinality(names) -> names] :
                      \A a, b \in 1..Cardinality(names) : a # b => f[a] # f[b]}
    IN {rows \in {[k \in 1..Cardinality(names) |-> UsageRow(S, f[k])] : f \in orders} :
           OrderByCountDesc(rows)}

\* x or 0 on a sum; the token columns of the rows are numbers, never NULL
OrZero(x) == IF x = 0 THEN 0 ELSE x

\* avg or 0 on a quotient: 0 when the total is 0
AvgOrZero(q) == IF q[1] = 0 THEN <<0, 1>> ELSE q

api_model_stats(hours) ==
    /\ \E stats \in get_model_usage_stats(hours) :
          last_call' =
              [op |-> "api_model_stats", hours |-> hours, at |-> now, rows |-> stats,
               response |-> [k \in 1..Len(stats) |->
                               [model_name |-> stats[k][1],
                                request_count |-> stats[k][2],
                                total_input_tokens |-> OrZero(stats[k][3]),
                                total_output_tokens |-> OrZero(stats[k][4]),
                                avg_response_time |-> AvgOrZero(stats[k][5]),
                                last_request |-> stats[k][6]]]]
    /\ UNCHANGED <<ext_vars, now, tz, system_metrics, request_logs, models,
                   written_samples, written_batches, default_model>>

\* seq[start:end] of Python: a negative index counts from the end
PyIndex(i, n) ==
    IF i < 0 THEN (IF i + n < 0 THEN 0 ELSE i + n)
    ELSE (IF i > n THEN n ELSE i)

PySlice(seq, start, end) ==
    SubSeq(seq, PyIndex(start, Len(seq)) + 1, PyIndex(end, Len(seq)))

\* the values of limit and offset a caller sends (type=int)
Limits == {0 - 1, 1, 100}

Offsets == {0 - 1, 0, 1}

api_request_logs(hours, limit, offset) ==
    /\ \E logs \in Listings(request_logs, Selected(request_logs, hours)) :
          /\ OrderByTimestampDesc(logs)
          /\ last_call' = [op |-> "api_request_logs", hours |-> hours, at |-> now,
                           limit |-> limit, offset |-> offset, rows |-> logs,
                           response |-> PySlice(logs, offset, offset + limit)]
    /\ UNCHANGED <<ext_vars, now, tz, system_metrics, request_logs, models,
                   written_samples, written_batches, default_model>>

\* ---------------------------------------------------------------------
\* OllamaMetricsDB._create_tables, run by every OllamaMetricsDB()
\* ---------------------------------------------------------------------
Tables == {"system_metrics", "request_logs", "models"}

Indexes == {"idx_request_logs_timestamp", "idx_request_logs_client_ip",
            "idx_request_logs_model_name", "idx_system_metrics_timestamp",
            "idx_models_timestamp"}

\* DROP TABLE and CREATE TABLE: the relation starts empty again
CreateTableIfNotExists_fresh(name, rows) == <<>>

\* CREATE TABLE IF NOT EXISTS: a relation that exists keeps its rows
CreateTableIfNotExists(name, rows) == IF name \in schema THEN rows ELSE <<>>

\* every relation is emptied when the schema is set up
create_tables_resetting ==
    /\ system_metrics' = <<>>
    /\ request_logs' = <<>>
    /\ models' = <<>>
    /\ schema' = schema \cup Tables \cup Indexes
    /\ last_call' = [NoCall EXCEPT !.op = "_create_tables", !.at = now]
    /\ UNCHANGED <<now, tz, written_samples, written_batches, default_model,
                   conn_vars, monitor, emitted, inflight, poller>>

create_tables ==
    /\ system_metrics' = CreateTableIfNotExists("system_metrics", system_metrics)
    /\ request_logs' = CreateTableIfNotExists("request_logs", request_logs)
    /\ models' = CreateTableIfNotExists("models", models)
    /\ schema' = schema \cup Tables \cup Indexes
    /\ last_call' = [NoCall EXCEPT !.op = "_create_tables", !.at = now]
    /\ UNCHANGED <<now, tz, written_samples, written_batches, default_model,
                   conn_vars, monitor, emitted, inflight, poller>>

\* ---------------------------------------------------------------------
\* the calls to the upstream made through requests, one second at a time
\* ---------------------------------------------------------------------
UpstreamCallers == {"get_server_status", "test_model_generation", "proxy_ollama"}

\* the timeout argument of the call in seconds; without one requests waits
\* for the answer without limit
TimeoutOf(op) == IF op = "proxy_ollama" THEN Some(10) ELSE None

Idle == [state |-> "idle", timeout |-> None, waited |-> 0]

\* requests.get(...) / requests.post(...) is entered
requests_call(op) ==
    /\ inflight[op].state = "idle"
    /\ inflight' = [inflight EXCEPT ![op] = [state |-> "waiting",
                                             timeout |-> TimeoutOf(op), waited |-> 0]]
    /\ UNCHANGED <<now, tz, system_metrics, request_logs, models, written_samples,
                   written_batches, last_call, default_model, conn_vars, monitor,
                   emitted, schema, poller>>

\* a second passes without an answer; a timeout that is due fires first
wait(op) ==
    /\ inflight[op].state = "waiting"
    /\ inflight[op].waited < MaxWait
    /\ inflight[op].timeout # None => inflight[op].waited < inflight[op].timeout[1]
    /\ inflight' = [inflight EXCEPT ![op].waited = @ + 1]
    /\ UNCHANGED <<now, tz, system_metrics, request_logs, models, written_samples,
                   written_batches, last_call, default_model, conn_vars, monitor,
                   emitted, schema, poller>>

\* the upstream answers and the call returns
answer(op) ==
    /\ inflight[op].state = "waiting"
    /\ inflight' = [inflight EXCEPT ![op] = Idle]
    /\ UNCHANGED <<now, tz, system_metrics, request_logs, models, written_samples,
                   written_batches, last_call, default_model, conn_vars, monitor,
                   emitted, schema, poller>>

\* the timeout of the call fires: requests raises, the caller's handler returns
expire(op) ==
    /\ inflight[op].state = "waiting"
    /\ inflight[op].timeout # None
    /\ inflight[op].waited >= inflight[op].timeout[1]
    /\ inflight' = [inflight EXCEPT ![op] = Idle]
    /\ UNCHANGED <<now, tz, system_metrics, request_logs, models, written_samples,
                   written_batches, last_call, default_model, conn_vars, monitor,
                   emitted, schema, poller>>

\* ---------------------------------------------------------------------
\* emit_system_metrics: the loop that reads the store and publishes again
\* ---------------------------------------------------------------------
\* pc: "none" not started, "poll" before the read, "sleep" in
\* socketio.sleep(5), "dead" after an error left the function
NotPolling == [pc |-> "none", rows |-> <<>>, published |-> None, fault |-> ""]

\* thread = Thread(target=emit_system_metrics); thread.start()
start_realtime_updates ==
    /\ poller.pc = "none"
    /\ poller' = [NotPolling EXCEPT !.pc = "poll"]
    /\ UNCHANGED <<now, tz, system_metrics, request_logs, models, written_samples,
                   written_batches, last_call, default_model, conn_vars, monitor,
                   emitted, schema, inflight>>

\* the oldest row of the list
Latest_first(metrics) == metrics[1]

\* metrics[-1]
Latest(metrics) == metrics[Len(metrics)]

\* one pass of the while True loop: no handler surrounds the read or the emit
poll(db_ok, emit_ok) ==
    /\ poller.pc = "poll"
    /\ IF ~db_ok
       THEN /\ poller' = [pc |-> "dead", rows |-> <<>>, published |-> None,
                          fault |-> "storage"]
            /\ UNCHANGED emitted
       ELSE \E metrics \in Listings(system_metrics, Selected(system_metrics, 1)) :
               /\ OrderByTimestamp(metrics)
               /\ IF metrics = <<>>
                  THEN /\ poller' = [pc |-> "sleep", rows |-> metrics,
                                     published |-> None, fault |-> ""]
                       /\ UNCHANGED emitted
                  ELSE IF emit_ok
                  THEN /\ poller' = [pc |-> "sleep", rows |-> metrics,
                                     published |-> Some(Latest(metrics)),
                                     fault |-> ""]
                       /\ emitted' = Some([event |-> "update_metrics",
                                           data |-> Latest(metrics)])
                  ELSE /\ poller' = [pc |-> "dead", rows |-> metrics,
                                     published |-> None, fault |-> "publish"]
                       /\ UNCHANGED emitted
    /\ UNCHANGED <<now, tz, system_metrics, request_logs, models, written_samples,
                   written_batches, last_call, default_model, conn_vars, monitor,
                   schema, inflight>>

\* socketio.sleep(5)
socketio_sleep ==
    /\ poller.pc = "sleep"
    /\ poller' = [poller EXCEPT !.pc = "poll"]
    /\ UNCHANGED <<now, tz, system_metrics, request_logs, models, written_samples,
                   written_batches, last_call, default_model, conn_vars, monitor,
                   emitted, schema, inflight>>

\* ---------------------------------------------------------------------
\* the query route /api/stats/requests
\* ---------------------------------------------------------------------
\* log_data dictionaries with and without a response time, on two endpoints
StatsLogInputs ==
    {[timestamp |-> isoformat(now + tz), client_ip |-> "127.0.0.1",
      model_name |-> "phi", input_tokens |-> 5, output_tokens |-> 9,
      response_time |-> r, status_code |-> 200, endpoint |-> e] :
        r \in {2, 4}, e \in {"/api/generate", "/api/chat"}}
    \cup {[timestamp |-> isoformat(now + tz), client_ip |-> "127.0.0.1",
           model_name |-> "phi", input_tokens |-> 5, output_tokens |-> 9,
           status_code |-> 200, endpoint |-> "/api/chat"]}

\* save_request_log on a store that takes MaxLogs request rows
insert_request_log(log_data) ==
    /\ Len(request_logs) < MaxLogs
    /\ request_logs' = Append(request_logs,
                              RequestLogRow(Len(request_logs) + 1, log_data))
    /\ last_call' = [NoCall EXCEPT !.op = "save_request_log", !.at = now]
    /\ UNCHANGED <<ext_vars, now, tz, system_metrics, models, written_samples,
                   written_batches, default_model>>

RECURSIVE SeqSum(_)
SeqSum(s) == IF s = <<>> THEN 0 ELSE Head(s) + SeqSum(Tail(s))

\* the response time of every row, 0 for a row that has none
ResponseTimes_all(logs) ==
    [k \in 1..Len(logs) |->
        IF "response_time" \in DOMAIN logs[k] THEN logs[k].response_time ELSE 0]

\* [log['response_time'] for log in logs if log['response_time'] is not None]
ResponseTimes(logs) ==
    LET timed == SelectSeq(logs, LAMBDA log : "response_time" \in DOMAIN log)
    IN [k \in 1..Len(timed) |-> timed[k].response_time]

\* sum(response_times) / len(response_times) if response_times else 0, the
\* quotient kept as the pair <<total, rows>>
AvgResponseTime(logs) ==
    LET response_times == ResponseTimes(logs)
    IN IF response_times # <<>>
       THEN <<SeqSum(response_times), Len(response_times)>>
       ELSE <<0, 1>>

\* the keys of endpoint_counts in the order of their insertion
RECURSIVE Endpoints(_)
Endpoints(logs) ==
    IF logs = <<>> THEN <<>>
    ELSE LET seen == Endpoints(SubSeq(logs, 1, Len(logs) - 1))
             endpoint == logs[Len(logs)].endpoint
         IN IF \E k \in 1..Len(seen) : seen[k] = endpoint
            THEN seen ELSE Append(seen, endpoint)

\* endpoint_counts.get(endpoint)
EndpointCount(logs, endpoint) ==
    Cardinality({k \in 1..Len(logs) : logs[k].endpoint = endpoint})

\* the last of the keys with the greatest count
MaxKey_last(keys, logs) ==
    IF keys = <<>> THEN None
    ELSE LET best == {k \in 1..Len(keys) :
                        \A j \in 1..Len(keys) :
                            EndpointCount(logs, keys[j]) <= EndpointCount(logs, keys[k])}
         IN Some(keys[CHOOSE k \in best : \A j \in best : j <= k])

\* max(endpoint_counts, key=endpoint_counts.get, default=None): the first of
\* the keys with the greatest count
MaxKey(keys, logs) ==
    IF keys = <<>> THEN None
    ELSE LET best == {k \in 1..Len(keys) :
                        \A j \in 1..Len(keys) :
                            EndpointCount(logs, keys[j]) <= EndpointCount(logs, keys[k])}
         IN Some(keys[CHOOSE k \in best : \A j \in best : k <= j])

api_request_stats(hours) ==
    /\ \E logs \in Listings(request_logs, Selected(request_logs, hours)) :
          /\ OrderByTimestampDesc(logs)
          /\ last_call' =
                [op |-> "api_request_stats", hours |-> hours, at |-> now, rows |-> logs,
                 response |->
                    [total_requests |-> Len(logs),
                     total_input_tokens |->
                        SeqSum([k \in 1..Len(logs) |-> logs[k].input_tokens]),
                     total_output_tokens |->
                        SeqSum([k \in 1..Len(logs) |-> logs[k].output_tokens]),
                     avg_response_time |-> AvgResponseTime(logs),
                     most_active_endpoint |-> MaxKey(Endpoints(logs), logs)]]
    /\ UNCHANGED <<ext_vars, now, tz, system_metrics, request_logs, models,
                   written_samples, written_batches, default_model>>

vars == <<now, tz, system_metrics, request_logs, models,
          written_samples, written_batches, last_call, default_model, ext_vars>>

Init ==
    /\ now = StartClock
    /\ tz \in TzOffsets
    /\ system_metrics = <<>>
    /\ request_logs = <<>>
    /\ models = <<>>
    /\ written_samples = <<>>
    /\ written_batches = <<>>
    /\ last_call = NoCall
    /\ default_model = None
    /\ db_lock = None
    /\ conn = [w \in Writers |-> Closed]
    /\ issued = <<>>
    /\ monitor = [l \in Monitors |-> NoMonitor]
    /\ emitted = None
    /\ schema = Tables \cup Indexes
    /\ inflight = [op \in UpstreamCallers |-> Idle]
    /\ poller = NotPolling

SaveSystemMetrics == \E metrics \in MetricsInputs : save_system_metrics(metrics)

SaveRequestLog == \E log_data \in LogInputs : save_request_log(log_data)

SaveModels == \E t \in ClockValues, list \in ModelLists : save_models(isoformat(t + tz), list)

GetRecentSystemMetrics == \E hours \in Windows : get_recent_system_metrics(hours)

GetRecentRequests == \E hours \in Windows : get_recent_requests(hours)

GetLatestModels == get_latest_models

GetModels == \E outcome \in TagsOutcomes : get_models(outcome)

TestModelGeneration ==
    \E model_name \in ModelArgs, outcome \in GenerateOutcomes :
        \/ test_model_generation(model_name, outcome, TRUE)
        \/ /\ outcome.status_code = 200
           /\ outcome.json # None
           /\ test_model_generation(model_name, outcome, FALSE)

ProxyOllama ==
    \E req \in Inbound :
        \/ \E outcome \in ProxyOutcomes : proxy_ollama(req, TRUE, outcome)
        \/ proxy_ollama(req, FALSE, NoOutcome)

\* the sample of a Sampler tick, stamped with the local clock, is stored
PersistSample ==
    \E p \in ProcessInfos :
        save_system_metrics([timestamp |-> isoformat(now + tz),
                             server_status |-> p # EmptyDict,
                             system |-> HostMetrics, ollama_process |-> p])

Connect == \E w \in Writers, call \in WriteCalls : sqlite3_connect(w, call)

Execute == \E w \in Writers : cursor_execute(w)

Commit == \E w \in Writers : conn_commit(w)

\* monitor = run_monitor() of __main__
Main == run_monitor(MainMonitor)

RunMonitor == \E l \in Monitors : run_monitor(l)

Run == \E l \in Monitors : run(l)

Stop == \E l \in Monitors : stop(l)

WhileTest == \E l \in Monitors : while_test(l)

Collect ==
    \E l \in Monitors, server_status \in BOOLEAN, host_ok \in BOOLEAN, scan \in Scans :
        collect(l, server_status, host_ok, scan)

Persist == \E l \in Monitors, db_ok \in BOOLEAN : persist(l, db_ok)

Publish == \E l \in Monitors, emit_ok \in BOOLEAN : publish(l, emit_ok)

Sleep == \E l \in Monitors : time_sleep(l)

ApiModelStats == \E hours \in Windows : api_model_stats(hours)

ApiRequestLogs ==
    \E hours \in Windows, limit \in Limits, offset \in Offsets :
        api_request_logs(hours, limit, offset)

CreateTables == create_tables

\* save_models called with the local time of the call
RefreshModels == \E list \in ModelLists : save_models(isoformat(now + tz), list)

\* a forwarded GET that the upstream answers
ProxyGet ==
    \E req \in {r \in Inbound : r.method = "GET"}, outcome \in UpstreamAnswers :
        proxy_ollama(req, TRUE, outcome)

\* the generation test on a named model
TestNamedModel ==
    \E outcome \in GenerateOutcomes : test_model_generation(Some("phi"), outcome, TRUE)

RequestsCall == \E op \in UpstreamCallers : requests_call(op)

Wait == \E op \in UpstreamCallers : wait(op)

Answer == \E op \in UpstreamCallers : answer(op)

Expire == \E op \in UpstreamCallers : expire(op)

StartRealtimeUpdates == start_realtime_updates

Poll == \E db_ok \in BOOLEAN, emit_ok \in BOOLEAN : poll(db_ok, emit_ok)

PollSleep == socketio_sleep

NextMetrics == Advance \/ SaveSystemMetrics \/ GetRecentSystemMetrics

SpecMetrics == Init /\ [][NextMetrics]_vars

NextRequests == Advance \/ SaveRequestLog \/ GetRecentRequests

SpecRequests == Init /\ [][NextRequests]_vars

NextModels == SaveModels \/ GetLatestModels

SpecModels == Init /\ [][NextModels]_vars

NextStore ==
    \/ Advance
    \/ SaveSystemMetrics
    \/ SaveRequestLog
    \/ GetRecentSystemMetrics
    \/ GetRecentRequests

SpecStore == Init /\ [][NextStore]_vars

NextProxy == ProxyOllama \/ TestModelGeneration \/ PersistSample

SpecProxy == Init /\ [][NextProxy]_vars

NextGenTest == GetModels \/ TestModelGeneration

SpecGenTest == Init /\ [][NextGenTest]_vars

ExecuteRaises == \E w \in Writers : cursor_execute_raises(w)

CloseUncommitted == \E w \in Writers : conn_close_uncommitted(w)

NextWriters == Connect \/ Execute \/ Commit

SpecWriters == Init /\ [][NextWriters]_vars

\* writers that may fail before their commit, and a reader of the models
NextBatches ==
    \/ Connect
    \/ Execute
    \/ Commit
    \/ ExecuteRaises
    \/ CloseUncommitted
    \/ GetLatestModels

SpecBatches == Init /\ [][NextBatches]_vars

NextModelStats == Advance \/ SaveRequestLog \/ ApiModelStats

SpecModelStats == Init /\ [][NextModelStats]_vars

NextRequestLogs == SaveRequestLog \/ ApiRequestLogs

SpecRequestLogs == Init /\ [][NextRequestLogs]_vars

\* every operation that reaches the store
NextSystem ==
    \/ CreateTables
    \/ PersistSample
    \/ TestNamedModel
    \/ RefreshModels
    \/ GetRecentSystemMetrics
    \/ GetRecentRequests
    \/ GetLatestModels
    \/ ProxyGet

SpecSystem == Init /\ [][NextSystem]_vars

InsertRequestLog == \E log_data \in StatsLogInputs : insert_request_log(log_data)

\* hours = request.args.get('hours', 24, type=int), left at its default
ApiRequestStats == api_request_stats(24)

\* /api/stats/requests on a store that request rows are written to
NextRequestStats == InsertRequestLog \/ ApiRequestStats

SpecRequestStats == Init /\ [][NextRequestStats]_vars

\* the loop of emit_system_metrics reading a store that samples are
\* written to while the clock moves on
NextPoll ==
    \/ Advance
    \/ PersistSample
    \/ StartRealtimeUpdates
    \/ Poll
    \/ PollSleep

SpecPoll == Init /\ [][NextPoll]_vars

\* the two background loops that __main__ starts
NextLoops ==
    \/ Main
    \/ Stop
    \/ WhileTest
    \/ Collect
    \/ Persist
    \/ Publish
    \/ Sleep
    \/ StartRealtimeUpdates
    \/ Poll
    \/ PollSleep

SpecLoops == Init /\ [][NextLoops]_vars

NextUpstream == RequestsCall \/ Wait \/ Answer \/ Expire

SpecUpstream == Init /\ [][NextUpstream]_vars

\* the start and stop operations on every monitor
NextStart == RunMonitor \/ Run \/ Stop \/ WhileTest

SpecStart == Init /\ [][NextStart]_vars

\* the program as __main__ starts it: one monitor and its loop
NextSampler ==
    \/ Main
    \/ Run
    \/ Stop
    \/ WhileTest
    \/ Collect
    \/ Persist
    \/ Publish
    \/ Sleep

SpecSampler == Init /\ [][NextSampler]_vars

\* the steps of the loop that the thread takes by itself; the step that
\* waits for the probe of the upstream is taken for sure only if the probe
\* has a timeout
ProbeBounded == TimeoutOf("get_server_status") # None

SamplerFairness ==
    /\ WF_vars(WhileTest)
    /\ WF_vars(ProbeBounded /\ Collect)
    /\ WF_vars(Persist)
    /\ WF_vars(Publish)
    /\ WF_vars(Sleep)

SpecSamplerFair == SpecSampler /\ SamplerFairness

\* ---------------------------------------------------------------------
\* properties of the store
\* ---------------------------------------------------------------------
IsWindowQuery == last_call.op \in {"get_recent_system_metrics", "get_recent_requests"}

\* the instant a stored local timestamp denotes, on the UTC clock
InstantOf(ts) == TimeOf(ts) - tz

\* C1: get_recent_system_metrics(h) and get_recent_requests(h) return only
\* rows whose timestamp is at or after now - h hours.
C1_OnlyRowsInWindow ==
    IsWindowQuery =>
        \A k \in 1..Len(last_call.rows) :
            InstantOf(last_call.rows[k].timestamp) >= last_call.at - last_call.hours

\* the rows of system_metrics are those that writes stamped with the local
\* clock produce: non-decreasing instants, none after the query
ClockWritten ==
    /\ \A i \in 1..Len(system_metrics) :
          /\ InstantOf(system_metrics[i].timestamp) \in ClockValues
          /\ InstantOf(system_metrics[i].timestamp) <= last_call.at
    /\ \A i \in 1..(Len(system_metrics) - 1) :
          InstantOf(system_metrics[i].timestamp) <= InstantOf(system_metrics[i + 1].timestamp)

\* the window of the last query reaches back to every written sample
WindowCovers ==
    /\ last_call.hours >= 0
    /\ \A i \in 1..Len(system_metrics) :
          InstantOf(system_metrics[i].timestamp) >= last_call.at - last_call.hours

\* a returned row holds the values of the sample it was written from
RowHolds(row, metrics) ==
    /\ row.timestamp = metrics.timestamp
    /\ (row.server_status = 1) = metrics.server_status
    /\ row.cpu_percent = metrics.system.cpu_percent
    /\ row.memory_percent = metrics.system.memory_percent
    /\ row.disk_percent = metrics.system.disk_percent
    /\ row.network_bytes_sent = metrics.system.network_bytes_sent
    /\ row.network_bytes_recv = metrics.system.network_bytes_recv
    /\ \A f \in {"cpu_percent", "memory_percent", "connections"} :
          f \in DOMAIN metrics.ollama_process =>
              CASE f = "cpu_percent" -> row.ollama_cpu_percent = metrics.ollama_process[f]
                [] f = "memory_percent" -> row.ollama_memory_percent = metrics.ollama_process[f]
                [] OTHER -> row.ollama_connections = metrics.ollama_process[f]

\* C2: N clock-stamped save_system_metrics calls on an empty store, then
\* get_recent_system_metrics with a window covering all of them, give back
\* exactly N rows holding the written values.
C2_RoundTrip ==
    (last_call.op = "get_recent_system_metrics" /\ ClockWritten /\ WindowCovers) =>
        /\ Len(last_call.rows) = Len(written_samples)
        /\ \A k \in 1..Len(last_call.rows) :
              RowHolds(last_call.rows[k], written_samples[last_call.rows[k].id])

\* C3: get_recent_system_metrics returns its rows in ascending order of time,
\* whatever the order of the writes.
C3_Ascending ==
    last_call.op = "get_recent_system_metrics" =>
        \A j, k \in 1..Len(last_call.rows) :
            j < k => TimeOf(last_call.rows[j].timestamp) <= TimeOf(last_call.rows[k].timestamp)

\* two rows written newest first come back oldest first
C3_Witness ==
    /\ last_call.op = "get_recent_system_metrics"
    /\ Len(last_call.rows) >= 2
    /\ last_call.rows[1].id > last_call.rows[2].id
    /\ TimeOf(last_call.rows[1].timestamp) < TimeOf(last_call.rows[2].timestamp)

\* C4: get_recent_requests returns its rows in descending order of time
\* (newest first), whatever the order of the writes.
C4_Descending ==
    last_call.op = "get_recent_requests" =>
        \A j, k \in 1..Len(last_call.rows) :
            j < k => TimeOf(last_call.rows[j].timestamp) >= TimeOf(last_call.rows[k].timestamp)

\* two rows written oldest first come back newest first
C4_Witness ==
    /\ last_call.op = "get_recent_requests"
    /\ Len(last_call.rows) >= 2
    /\ last_call.rows[1].id > last_call.rows[2].id
    /\ TimeOf(last_call.rows[1].timestamp) > TimeOf(last_call.rows[2].timestamp)

\* the ids of the rows that the k-th save_models call inserted
BatchIds(k) ==
    IF k = 1 THEN 1..Len(written_batches[1].models)
    ELSE (Len(written_batches[1].models) + 1)..
         (Len(written_batches[1].models) + Len(written_batches[2].models))

\* exactly two batches were written, the k-th one with the later timestamp
LaterBatch(k) ==
    /\ Len(written_batches) = 2
    /\ k \in 1..2
    /\ TimeOf(written_batches[3 - k].timestamp) < TimeOf(written_batches[k].timestamp)

ReturnsBatch(k) ==
    /\ Len(last_call.rows) = Len(written_batches[k].models)
    /\ {last_call.rows[j] : j \in 1..Len(last_call.rows)} = {models[i] : i \in BatchIds(k)}
    /\ \A j \in 1..Len(last_call.rows) :
          last_call.rows[j].timestamp = written_batches[k].timestamp

\* C5 (as stated): after two batches with timestamps T1 < T2,
\* get_latest_models returns exactly the rows of the T2 batch.
C5_LatestIsT2 ==
    \A k \in 1..2 :
        (last_call.op = "get_latest_models" /\ LaterBatch(k)) => ReturnsBatch(k)

\* C5 (amended): after two batches with timestamps T1 < T2, the T2 batch
\* holding at least one model, get_latest_models returns exactly the rows of
\* the T2 batch.
C5_LatestIsNonEmptyT2 ==
    \A k \in 1..2 :
        (/\ last_call.op = "get_latest_models"
         /\ LaterBatch(k)
         /\ Len(written_batches[k].models) > 0) => ReturnsBatch(k)

\* the T2 batch was written first, and both batches hold rows
C5_Witness ==
    /\ last_call.op = "get_latest_models"
    /\ LaterBatch(1)
    /\ Len(written_batches[1].models) > 0
    /\ Len(written_batches[2].models) > 0
    /\ ReturnsBatch(1)

\* ---------------------------------------------------------------------
\* properties of the proxy route
\* ---------------------------------------------------------------------
\* the last operation was a proxy call that the upstream answered
Answered == last_call.op = "proxy_ollama" /\ last_call.outcome.kind = "response"

\* C6: for every forwarded call that the upstream answers, proxy_ollama
\* returns the upstream's status code, body and headers unchanged.
C6_Verbatim ==
    Answered =>
        /\ last_call.response.status = last_call.outcome.status_code
        /\ last_call.response.body = last_call.outcome.raw
        /\ last_call.response.headers = last_call.outcome.headers

\* C7: a transport failure of the upstream call is answered with 502 and the
\* failure detail, never 200; any other failure in the handler with 500.
C7_FailureStatus ==
    last_call.op = "proxy_ollama" =>
        /\ last_call.outcome.kind = "RequestException" =>
              /\ last_call.response.status = 502
              /\ last_call.response.body.details = last_call.outcome.detail
        /\ (last_call.outcome.kind = "Exception" \/ ~last_call.db_ok) =>
              last_call.response.status = 500
        /\ last_call.outcome.kind # "response" => last_call.response.status # 200

\* the upstream call timed out and the caller got the 502 with the detail
C7_Witness ==
    /\ last_call.op = "proxy_ollama"
    /\ last_call.outcome.kind = "RequestException"
    /\ last_call.outcome.detail = "ReadTimeout"
    /\ last_call.response.status = 502
    /\ last_call.response.body.details = "ReadTimeout"

\* C8: for an inbound GET, POST, PUT or DELETE the upstream call has the
\* same method, query parameters, headers except Host, and body.
C8_EquivalentCall ==
    (/\ last_call.op = "proxy_ollama"
     /\ last_call.db_ok
     /\ last_call.request.method \in ProxyMethods) =>
        /\ last_call.upstream_call.method = last_call.request.method
        /\ last_call.upstream_call.params = last_call.request.args
        /\ last_call.upstream_call.headers =
              [k \in (DOMAIN last_call.request.headers) \ {"Host"} |->
                  last_call.request.headers[k]]
        /\ last_call.upstream_call.body = last_call.request.data

\* C9: no proxy_ollama invocation, successful or failed, changes the rows of
\* request_logs, system_metrics or models: a step that ends with the answer
\* of a proxy call leaves the three relations as they were.
C9_ProxyWritesNothing ==
    [][last_call'.op = "proxy_ollama" => UNCHANGED store_vars]_vars

\* a proxy call was served while request_logs and system_metrics held rows
C9_Witness ==
    /\ last_call.op = "proxy_ollama"
    /\ Len(request_logs) > 0
    /\ Len(system_metrics) > 0

\* ---------------------------------------------------------------------
\* properties of the generation test
\* ---------------------------------------------------------------------
\* the step adds exactly one row to request_logs, built from the answer o
WritesOneLog(o) ==
    /\ Len(request_logs') = Len(request_logs) + 1
    /\ SubSeq(request_logs', 1, Len(request_logs)) = request_logs
    /\ UNCHANGED <<system_metrics, models>>
    /\ LET row == request_logs'[Len(request_logs')]
       IN /\ "prompt_eval_count" \in DOMAIN o.json[1] =>
                row.input_tokens = o.json[1].prompt_eval_count
          /\ "prompt_eval_count" \notin DOMAIN o.json[1] => row.input_tokens = 0
          /\ "eval_count" \in DOMAIN o.json[1] => row.output_tokens = o.json[1].eval_count
          /\ "eval_count" \notin DOMAIN o.json[1] => row.output_tokens = 0
          /\ row.client_ip = "127.0.0.1"
          /\ row.response_time = o.elapsed
          /\ row.status_code = 200
          /\ row.endpoint = "/api/generate"

\* the step adds exactly one row to request_logs
WritesOneRow ==
    /\ Len(request_logs') = Len(request_logs) + 1
    /\ SubSeq(request_logs', 1, Len(request_logs)) = request_logs
    /\ UNCHANGED <<system_metrics, models>>

UpstreamFailed(o) ==
    \/ o.kind = "exception"
    \/ o.kind = "response" /\ o.status_code # 200

C11_FailureWritesNothing ==
    [][(/\ last_call'.op = "test_model_generation"
        /\ UpstreamFailed(last_call'.outcome))
          => /\ UNCHANGED store_vars
             /\ last_call'.returned = None]_vars

\* a failed test after a successful one: the stored row is still the only one
C11_Witness ==
    /\ last_call.op = "test_model_generation"
    /\ UpstreamFailed(last_call.outcome)
    /\ Len(request_logs) = 1
    /\ last_call.returned = None

\* C12: under any interleaving of concurrent writers every row a write has
\* inserted is stored exactly once: when the writers have returned, the
\* relations hold as many rows as were issued, each at the key it was given.
AllReturned == \A w \in Writers : conn[w].pc = "closed"

StoredOnce(k) ==
    LET t == Table(issued[k].table)
    IN /\ issued[k].row.id \in 1..Len(t)
       /\ t[issued[k].row.id] = issued[k].row
       /\ \A j \in 1..Len(issued) :
             (j # k /\ issued[j].table = issued[k].table)
                => issued[j].row.id # issued[k].row.id

LoopRunning(l) == monitor[l].pc \notin {"none", "exited"}

C13_SingleLoop == Cardinality({l \in Monitors : LoopRunning(l)}) <= 1

\* C14: no fault of a tick ends the loop: the loop leaves Running only at
\* its loop test with the stop signal given, and the pause after a caught
\* error leads back to the loop test.
C14_OnlyStopExits ==
    [][\A l \in Monitors :
          /\ (monitor[l].pc # "exited" /\ monitor'[l].pc = "exited")
                => (monitor[l].pc = "while" /\ ~monitor[l].running)
          /\ (monitor[l].pc = "except" /\ monitor'[l].pc # "except")
                => monitor'[l].pc = "while"]_vars

\* a later tick has started after a store write failed
C14_Witness ==
    \E l \in Monitors : monitor[l].pc = "tick" /\ monitor[l].fault = "storage"

\* C15: a tick whose process scan finds no match composes a sample with an
\* empty process part; the tick stores it (process columns 0) and publishes
\* it, and stops short only on a fault of the store or of the publisher.
NoMatch(l) == monitor[l].scan = "not found"

StoredWithoutProcess(metrics) ==
    \E i \in 1..Len(system_metrics) :
        /\ system_metrics[i] = SystemMetricsRow(i, metrics)
        /\ system_metrics[i].ollama_cpu_percent = 0
        /\ system_metrics[i].ollama_memory_percent = 0
        /\ system_metrics[i].ollama_connections = 0

C15_NoMatchStillPublished ==
    \A l \in Monitors :
        NoMatch(l) =>
            /\ monitor[l].pc \in {"save", "emit", "sleep", "except"}
            /\ monitor[l].pc = "except" => monitor[l].fault \in {"storage", "publish"}
            /\ monitor[l].metrics # None
            /\ DOMAIN monitor[l].metrics[1].ollama_process = {}
            /\ monitor[l].pc \in {"emit", "sleep"}
                  => StoredWithoutProcess(monitor[l].metrics[1])
            /\ monitor[l].pc = "sleep"
                  => emitted = Some([event |-> "update_metrics",
                                     data |-> monitor[l].metrics[1]])

C15_Witness ==
    \E l \in Monitors : NoMatch(l) /\ monitor[l].pc = "sleep"

\* C16: get_model_usage_stats(h) returns one result per model_name among the
\* request rows of the window [now - h, now], with the number of those rows,
\* the sums of their token counts, the mean of their response times and
\* their latest timestamp, ordered by count descending.
WindowRows(h, at) ==
    {i \in 1..Len(request_logs) : InstantOf(request_logs[i].timestamp) >= at - h}

SameMean(q, total, n) == q[1] * n = total * q[2]

\* the window has a length and no row is stamped later than the query
StatsOfPast ==
    /\ last_call.op = "api_model_stats"
    /\ last_call.hours >= 0
    /\ \A i \in 1..Len(request_logs) :
          InstantOf(request_logs[i].timestamp) <= last_call.at

C16_StatsOfWindow ==
    StatsOfPast =>
        LET W == WindowRows(last_call.hours, last_call.at)
            stats == last_call.rows
        IN /\ {stats[k][1] : k \in 1..Len(stats)} = {request_logs[i].model_name : i \in W}
           /\ \A j, k \in 1..Len(stats) : j # k => stats[j][1] # stats[k][1]
           /\ \A k \in 1..Len(stats) :
                 LET G == {i \in W : request_logs[i].model_name = stats[k][1]}
                 IN /\ stats[k][2] = Cardinality(G)
                    /\ stats[k][3] = SumOf(G, "input_tokens")
                    /\ stats[k][4] = SumOf(G, "output_tokens")
                    /\ SameMean(stats[k][5], SumOf(G, "response_time"), Cardinality(G))
                    /\ \A i \in G : ~TextLess(stats[k][6], request_logs[i].timestamp)
           /\ \A j, k \in 1..Len(stats) : j < k => stats[j][2] >= stats[k][2]

\* C18: GET /api/logs/requests returns the elements at the positions
\* offset <= p < offset + limit (counted from 0) of the descending result
\* of get_recent_requests(hours), for every integer limit and offset.
PositionsOf(logs, offset, limit) ==
    {p \in 0..(Len(logs) - 1) : offset <= p /\ p < offset + limit}

C18_SliceOfResult ==
    last_call.op = "api_request_logs" =>
        LET P == PositionsOf(last_call.rows, last_call.offset, last_call.limit)
            first == IF last_call.offset < 0 THEN 0 ELSE last_call.offset
        IN /\ Len(last_call.response) = Cardinality(P)
           /\ \A k \in 1..Len(last_call.response) :
                 /\ first + k - 1 \in P
                 /\ last_call.response[k] = last_call.rows[first + k]

\* C17: the three relations are append-only: whatever operation runs, every
\* row that was stored is still there, at its place and with its values.
KeepsRows(old, new) ==
    /\ Len(new) >= Len(old)
    /\ \A i \in 1..Len(old) : new[i] = old[i]

C17_AppendOnly ==
    [][/\ KeepsRows(system_metrics, system_metrics')
       /\ KeepsRows(request_logs, request_logs')
       /\ KeepsRows(models, models')]_vars

\* the schema is initialised again on a store that holds rows of each kind
C17_Witness ==
    /\ last_call.op = "_create_tables"
    /\ Len(system_metrics) >= 1
    /\ Len(request_logs) >= 1

\* C19: the liveness probe, the generation test and every forwarded proxy
\* call are bounded by an explicit timeout: a call that waits for the
\* upstream has a timeout and has not waited longer than it.
C19_BoundedByTimeout ==
    \A op \in UpstreamCallers :
        inflight[op].state = "waiting" =>
            /\ inflight[op].timeout # None
            /\ inflight[op].waited <= inflight[op].timeout[1]

\* C20: no fault of collection, of the upstream, of the store or of process
\* access brings a background loop down: the collection loop is left only
\* on the stop signal and the loop of emit_system_metrics is never ended by
\* a fault of the store.
C20_LoopsSurvive ==
    /\ \A l \in Monitors : monitor[l].pc = "exited" => ~monitor[l].running
    /\ ~(poller.pc = "dead" /\ poller.fault = "storage")

\* C21: in every tick the sample is stored before it is published, the
\* message published is the sample just stored, and a sample whose store
\* write failed is not published.
Stored(metrics) ==
    \E i \in 1..Len(system_metrics) : system_metrics[i] = SystemMetricsRow(i, metrics)

C21_PersistBeforePublish ==
    [][\A l \in Monitors :
          /\ (monitor[l].pc = "emit" /\ monitor'[l].pc = "sleep")
                => /\ Stored(monitor[l].metrics[1])
                   /\ emitted' = Some([event |-> "update_metrics",
                                       data |-> monitor[l].metrics[1]])
          /\ (monitor[l].pc = "save" /\ monitor'[l].fault = "storage")
                => /\ monitor'[l].pc = "except"
                   /\ UNCHANGED emitted
          /\ (monitor[l].pc = "except" /\ monitor'[l].pc # "except")
                => /\ monitor'[l].pc = "while"
                   /\ UNCHANGED emitted]_vars

\* a second sample has been stored and published after a first one
C21_Witness ==
    \E l \in Monitors :
        /\ monitor[l].pc = "sleep"
        /\ Len(system_metrics) = 2
        /\ system_metrics[2] = SystemMetricsRow(2, monitor[l].metrics[1])
        /\ emitted = Some([event |-> "update_metrics", data |-> monitor[l].metrics[1]])

\* C22: stopping is cooperative: once stop() has been called on a running
\* loop, no tick is started with the stop signal set and the loop
\* eventually reaches Stopped.
StopPending(l) == LoopRunning(l) /\ ~monitor[l].running

C22_StopReachesStopped ==
    /\ [][\A l \in Monitors :
             (monitor[l].pc = "while" /\ monitor'[l].pc = "tick") => monitor[l].running]_vars
    /\ \A l \in Monitors : StopPending(l) ~> (monitor[l].pc = "exited")

\* C23: a start takes the Sampler from Stopped to Running, where it
\* executes ticks, on the first start and on a start after an earlier stop:
\* the started loop finds its run flag set.
Started(l) == monitor[l].pc \in {"none", "exited"} /\ monitor'[l].pc = "while"

C23_StartRuns ==
    [][\A l \in Monitors : Started(l) => monitor'[l].running]_vars

\* C24: a tick whose steps all succeeded is followed by a sleep of the
\* interval (5), a tick in which an error was caught by a sleep of 10, and
\* a tick has one of the two sleeps, never both.
C24_OneSleepPerTick ==
    [][\A l \in Monitors :
          /\ (monitor[l].pc = "sleep" /\ monitor'[l].pc # "sleep")
                => (monitor'[l].pc = "while" /\ monitor'[l].slept = 5)
          /\ (monitor[l].pc = "except" /\ monitor'[l].pc # "except")
                => (monitor'[l].pc = "while" /\ monitor'[l].slept = 10)
          /\ (monitor[l].pc # "while" /\ monitor'[l].pc = "while")
                => monitor[l].pc \in {"none", "exited", "sleep", "except"}
          /\ (monitor[l].pc = "emit" /\ monitor'[l].pc # "emit")
                => monitor'[l].pc = IF monitor'[l].fault = "" THEN "sleep" ELSE "except"]_vars

\* a tick has started after the pause of 10 that followed a caught error
C24_Witness ==
    \E l \in Monitors : monitor[l].pc = "tick" /\ monitor[l].slept = 10

\* C25: once get_models has set default_model, no later get_models call,
\* whatever list the upstream returns, assigns it another value.
C25_DefaultFixed ==
    [][default_model # None => default_model' = default_model]_vars

\* C25 as amended: once default_model holds a non-empty name, no later
\* get_models call assigns it another value.
C25_NamedDefaultFixed ==
    [][Truthy(default_model) => default_model' = default_model]_vars

\* a later listing led by another name has left the default as it was
C25_Witness ==
    /\ last_call.op = "get_models"
    /\ Truthy(default_model)
    /\ last_call.returned # <<>>
    /\ last_call.returned[1].name # default_model[1]

\* the stored models grow by all the rows of the batch of writer w
AppendsBatchOf(w) ==
    LET batch == conn[w].batch
    IN /\ conn[w].table = "models"
       /\ Len(models') = Len(models) + Len(batch)
       /\ SubSeq(models', 1, Len(models)) = models
       /\ \A k \in 1..Len(batch) :
             models'[Len(models) + k] = NewRow("models", Len(models) + k, batch[k])

\* C26: a batch of save_models becomes visible to get_latest_models whole or
\* not at all, also when the call fails part-way: the stored models, which
\* are all a reader sees, change only by all the rows of one batch at once.
C26_BatchAtomic ==
    [][models' # models => \E w \in Writers : AppendsBatchOf(w)]_vars

\* a reader has returned while a batch that failed after its first row is
\* still uncommitted, and sees none of its rows
C26_Witness ==
    \E w \in Writers :
        /\ conn[w].pc = "raised"
        /\ conn[w].table = "models"
        /\ conn[w].todo # <<>>
        /\ Len(conn[w].cache) > Len(models)
        /\ last_call.op = "get_latest_models"
        /\ Len(last_call.rows) = Len(models)

\* C27: _create_tables is idempotent: a run on a store that holds rows leaves
\* the rows of every relation as they were and the schema that of one run.
C27_CreateTablesIdempotent ==
    [][last_call'.op = "_create_tables" =>
          /\ system_metrics' = system_metrics
          /\ request_logs' = request_logs
          /\ models' = models
          /\ schema' = Tables \cup Indexes]_vars

\* the schema has been set up again on a store with listed models in it
C27_Witness ==
    /\ last_call.op = "_create_tables"
    /\ Len(models) >= 1
    /\ TotalRows = MaxRows

\* C28: each iteration of emit_system_metrics publishes the row with the
\* greatest timestamp among the rows of the window it reads, the rows that
\* get_recent_system_metrics(hours=1) selects from the store, and publishes
\* nothing when that window holds no row.
NewestOf(S, row) ==
    \E i \in S : /\ row = system_metrics[i]
                 /\ \A j \in S : ~TextLess(row.timestamp, system_metrics[j].timestamp)

FirstSeen(logs, endpoint) ==
    CHOOSE k \in 1..Len(logs) :
        /\ logs[k].endpoint = endpoint
        /\ \A j \in 1..(k - 1) : logs[j].endpoint # endpoint

DeniedInfo == [pid |-> 7, cpu_percent |-> 3, memory_percent |-> 2, connections |-> 0 - 1]

C32_SamePayload ==
    [][(poller.pc = "poll" /\ poller'.pc = "sleep" /\ poller'.published # None) =>
          /\ poller'.published[1].id \in 1..Len(written_samples)
          /\ emitted' = Some([event |-> "update_metrics",
                              data |-> written_samples[poller'.published[1].id]])]_vars

\* C33: in every reachable state every row of request_logs was written by a
\* successful generation test: it has status_code 200, client_ip '127.0.0.1'
\* and endpoint '/api/generate', and no other operation adds a row.
FromGenerationTest(row) ==
    /\ row.status_code = 200
    /\ row.client_ip = "127.0.0.1"
    /\ row.endpoint = "/api/generate"

C33_LogsOnlyFromGenerationTest ==
    /\ [](\A i \in 1..Len(request_logs) : FromGenerationTest(request_logs[i]))
    /\ [][request_logs' # request_logs =>
             /\ last_call'.op = "test_model_generation"
             /\ last_call'.outcome.kind = "response"
             /\ last_call'.outcome.status_code = 200
             /\ last_call'.returned # None
             /\ Len(request_logs') = Len(request_logs) + 1
             /\ SubSeq(request_logs', 1, Len(request_logs)) = request_logs]_vars

\* a generation test that the upstream refused has run on a store that
\* holds the row of an earlier, successful one
C33_Witness ==
    /\ last_call.op = "test_model_generation"
    /\ last_call.outcome.kind = "response"
    /\ last_call.outcome.status_code = 500
    /\ Len(request_logs) = 1
    /\ FromGenerationTest(request_logs[1])

====
